---- MODULE Spec2Model ----
(***************************************************************************)
(* Workflow execution engine of tene-yie (src/services/executionEngine.js) *)
(* as a state machine: one run of executeWorkflow against a stored         *)
(* workflow, its nodes and its edges (Spec, FairSpec); two runs taking     *)
(* turns at their suspension points (SpecConc); and the requests of the    *)
(* node and edge controllers that fill the store before a run (SpecApi).   *)
(*                                                                         *)
(* Environment contract (spec section 6): loadWorkflow answers with the    *)
(* row or not-found, loadNodes and loadEdges answer with the stored rows,  *)
(* and appendExecutionRecord answers success or storage-error.  On top of  *)
(* that the record's payload is sent to the store as JSON, so a payload    *)
(* that JSON cannot serialise (a context holding a reference to itself)    *)
(* is never stored: the insert raises or reports the serialisation error.  *)
(***************************************************************************)
EXTENDS Naturals, Integers, Sequences, FiniteSets, TLC

\* ---------------------------------------------------------------- bounds
\* nodes of an exhaustively enumerated workflow
MaxNodes == 2
\* edges of an exhaustively enumerated workflow
MaxEdges == 2
\* frames the call stack holds before it is exhausted
MaxDepth == 5
\* Requests of the node and edge controllers in flight at once.
MaxRequests == 2

\* ------------------------------------------------------------- constants
KnownTypes == {"trigger", "data", "transform", "action"}
UnknownTypes == {"webhook", "loop"}
NullConfig == "null"

\* (node_type, config) pairs stored nodes are drawn from.  config stands
\* for the value of the subtype key the handler switches on (config.type,
\* or config.source for data nodes); "none" is a config without that key
\* and NullConfig is a config column holding null.
NodeKinds ==
  { [node_type |-> "trigger",   config |-> "none"],
    [node_type |-> "trigger",   config |-> NullConfig],
    [node_type |-> "data",      config |-> "weather"],
    [node_type |-> "transform", config |-> "summarize"],
    [node_type |-> "transform", config |-> "filter"],
    [node_type |-> "action",    config |-> "email"] }
  \cup { [node_type |-> t, config |-> "none"] : t \in UnknownTypes }

\* The kinds the exhaustively enumerated workflows are built from: a node
\* that starts the walk, one that returns a plain envelope, one whose
\* envelope refers to the context and one whose handler throws.
SmallKinds ==
  { k \in NodeKinds :
      \/ k.node_type \in {"trigger", "data"} /\ k.config # NullConfig
      \/ k.node_type = "transform" /\ k.config = "filter"
      \/ k.node_type = "webhook" }

\* ---------------------------------------------------------- error messages
NoError == <<>>
NotFoundMsg == <<"Workflow not found">>
DisabledMsg == <<"Workflow is disabled">>
NoNodesMsg == <<"Workflow has no nodes">>
NoTriggerMsg == <<"No trigger node found. Workflow must start with a trigger">>
UnknownTypeMsg(t) == <<"Unknown node type: ", t>>
NullConfigMsg(key) == <<"Cannot read properties of null (reading '", key, "')">>
PushMsg == <<"Cannot read properties of undefined (reading 'push')">>
CircularMsg == <<"Converting circular structure to JSON">>
StackMsg == <<"Maximum call stack size exceeded">>

\* ------------------------------------------------------------------ state
VARIABLES
  dbWorkflow,     \* store: the workflows row asked for, [exists, enabled]
  dbNodes,        \* store: the nodes rows of the workflow, in load order
  dbEdges,        \* store: the edges rows of the workflow, in load order
  dbExecutions,   \* store: the executions rows inserted so far
  pc,             \* position of the run inside executeWorkflow
  nodes,          \* local: nodes as loaded
  edges,          \* local: edges as loaded
  adjacencyMap,   \* local: node id -> sequence of successor ids
  executionData,  \* local: node id -> result envelope (Execution Context)
  stack,          \* call stack of executeNode: frames [node, via, i]
  error,          \* message of the error caught by executeWorkflow
  outcome,        \* what executeWorkflow returned
  attempts,       \* calls of logExecution: [status, answer of the insert]
  trace,          \* entries of executeNode: [node, via (the caller's node)]
  other,          \* the suspended run of the process: its rows and locals
  requests        \* requests of the node and edge controllers, with locals

vars == <<dbWorkflow, dbNodes, dbEdges, dbExecutions, pc, nodes, edges,
          adjacencyMap, executionData, stack, error, outcome, attempts, trace,
          other, requests>>

\* ------------------------------------------------------------ small helpers
Null == [null |-> TRUE]
Some(v) == [null |-> FALSE, value |-> v]

Ids(ns) == { ns[i].id : i \in 1..Len(ns) }

\* Array.prototype.find over the indices S of the matching elements: the
\* first match, as an index (0: no element matches).
FirstOf(S) == IF S = {} THEN 0 ELSE CHOOSE i \in S : \A j \in S : i <= j

NoOutcome == [returned |-> FALSE, success |-> FALSE, error |-> NoError,
              executionData |-> Null]

\* ------------------------------------------------------------ node handlers
\* A handler's answer: the envelope it returns, or the error it throws.
Returned(env) == [ok |-> TRUE, env |-> env, err |-> NoError]
Thrown(msg) == [ok |-> FALSE, env |-> Null, err |-> msg]

\* `at` stands for the envelope's timestamp (new Date()): the number of
\* executeNode entries so far.
Envelope(type, subtype, at, result) ==
  [type |-> type, subtype |-> subtype, at |-> at, result |-> result]

\* The context holds a reference to itself once it stores a transform
\* envelope whose result wraps the context object (filterData, combineData
\* and the default branch return the very object they were given).
Circular(ctx) == \E k \in DOMAIN ctx : ctx[k].result.kind = "live"

\* JSON.stringify(executionData): the entries present at that moment, each
\* identified by its timestamp.
Stringify(ctx) == [k \in DOMAIN ctx |-> ctx[k].at]

executeTrigger(node, at) ==
  IF node.config = NullConfig
  THEN Thrown(NullConfigMsg("type"))
  ELSE Returned(Envelope("trigger", node.config, at, [kind |-> "config"]))

executeDataNode(node, ctx, at) ==
  IF node.config = NullConfig
  THEN Thrown(NullConfigMsg("source"))
  ELSE Returned(Envelope("data", node.config, at,
         [kind |-> IF node.config \in {"weather", "calendar", "github"}
                   THEN "fetched" ELSE "not configured"]))

summarizeData(ctx) ==
  IF Circular(ctx) THEN Thrown(CircularMsg)
  ELSE Returned([kind |-> "summary", summary |-> Stringify(ctx)])

filterData(ctx) == Returned([kind |-> "live"])

combineData(ctx) == Returned([kind |-> "live"])

executeTransform(node, ctx, at) ==
  IF node.config = NullConfig
  THEN Thrown(NullConfigMsg("type"))
  ELSE LET r == CASE node.config = "summarize" -> summarizeData(ctx)
                  [] node.config = "filter" -> filterData(ctx)
                  [] node.config = "combine" -> combineData(ctx)
                  [] OTHER -> Returned([kind |-> "live"])
       IN IF r.ok
          THEN Returned(Envelope("transform", node.config, at, r.env))
          ELSE r

executeAction(node, ctx, at) ==
  IF node.config = NullConfig
  THEN Thrown(NullConfigMsg("type"))
  ELSE Returned(Envelope("action", node.config, at,
         [kind |-> IF node.config \in {"email", "sms", "post"}
                   THEN "sent" ELSE "not configured"]))

\* Mutant: a node of an unknown type is passed over with an empty envelope.
HandlerResultSkipsUnknown(node, ctx, at) ==
  CASE node.node_type = "trigger" -> executeTrigger(node, at)
    [] node.node_type = "data" -> executeDataNode(node, ctx, at)
    [] node.node_type = "transform" -> executeTransform(node, ctx, at)
    [] node.node_type = "action" -> executeAction(node, ctx, at)
    [] OTHER -> Returned(Envelope(node.node_type, node.config, at,
                                  [kind |-> "skipped"]))

\* The switch of executeNode.
HandlerResult(node, ctx, at) ==
  CASE node.node_type = "trigger" -> executeTrigger(node, at)
    [] node.node_type = "data" -> executeDataNode(node, ctx, at)
    [] node.node_type = "transform" -> executeTransform(node, ctx, at)
    [] node.node_type = "action" -> executeAction(node, ctx, at)
    [] OTHER -> Thrown(UnknownTypeMsg(node.node_type))

\* --------------------------------------------------------- adjacency map
\* edges.forEach(edge => map[edge.source_node_id].push(...)) throws on the
\* first edge whose source is no key of the map.
BuildFails(ns, es) == \E i \in 1..Len(es) : es[i].source_node_id \notin Ids(ns)

\* Mutant: a target is put in front of the targets already listed.
buildAdjacencyMapUnshift(ns, es) ==
  [id \in Ids(ns) |->
     LET out == SelectSeq(es, LAMBDA e : e.source_node_id = id)
     IN [i \in 1..Len(out) |-> out[Len(out) + 1 - i].target_node_id]]

buildAdjacencyMap(ns, es) ==
  [id \in Ids(ns) |->
     LET out == SelectSeq(es, LAMBDA e : e.source_node_id = id)
     IN [i \in 1..Len(out) |-> out[i].target_node_id]]

\* ------------------------------------------------------ stored workflows
MkNodes(ks) ==
  [i \in 1..Len(ks) |-> [id |-> i, node_type |-> ks[i].node_type,
                         config |-> ks[i].config]]

Edge(s, t) == [source_node_id |-> s, target_node_id |-> t]

\* Every node list of n nodes of the small kinds; every edge list of m edges whose endpoints
\* are the n node ids or one identifier (n+1) that no node has.
NodeLists(n) == { MkNodes(ks) : ks \in [1..n -> SmallKinds] }
EdgeLists(n, m) ==
  [1..m -> { Edge(s, t) : s \in 1..(n+1), t \in 1..(n+1) }]

\* The graphs of the spec's testable properties: node 1 is the trigger and
\* the other three nodes are of any kind.
TriggerFirst ==
  { MkNodes(<<[node_type |-> "trigger", config |-> "none"]>> \o ks) :
      ks \in [1..3 -> NodeKinds] }

ChainEdges == <<Edge(1, 2), Edge(2, 3), Edge(3, 4)>>
DiamondEdges == <<Edge(1, 2), Edge(1, 3), Edge(2, 4), Edge(3, 4)>>
DiamondEdgesRev == <<Edge(1, 3), Edge(1, 2), Edge(3, 4), Edge(2, 4)>>

ShapedEdges == {ChainEdges, DiamondEdges, DiamondEdgesRev}

Runnable == [exists |-> TRUE, enabled |-> TRUE]

\* No second run in the process.
NoRun == [pc |-> "none"]

\* The locals of executeWorkflow when it is called.
RunStarts ==
  /\ pc = "start"
  /\ nodes = <<>>
  /\ edges = <<>>
  /\ adjacencyMap = <<>>
  /\ executionData = <<>>
  /\ stack = <<>>
  /\ error = NoError
  /\ outcome = NoOutcome
  /\ attempts = <<>>
  /\ trace = <<>>

Stored(w, ns, es) ==
  /\ dbWorkflow = w
  /\ dbNodes = ns
  /\ dbEdges = es

\* The stored state a run starts from is one of: a runnable workflow with
\* an exhaustively enumerated small graph; a runnable workflow with one of
\* the shaped graphs; a workflow row in any state with at most one node (a
\* missing or disabled workflow is never loaded any further).
Init ==
  /\ \/ \E n \in 1..MaxNodes, m \in 0..MaxEdges :
          \E ns \in NodeLists(n), es \in EdgeLists(n, m) :
            Stored(Runnable, ns, es)
     \/ \E ns \in TriggerFirst, es \in ShapedEdges :
          Stored(Runnable, ns, es)
     \/ \E w \in [exists : BOOLEAN, enabled : BOOLEAN] :
          \E ns \in NodeLists(0) \cup NodeLists(1) :
            Stored(w, ns, <<>>)
  /\ dbExecutions = <<>>
  /\ RunStarts
  /\ other = NoRun
  /\ requests = <<>>

\* --------------------------------------------------------- executeWorkflow
Frame(node, via) == [node |-> node, via |-> via, i |-> 0]
Top == stack[Len(stack)]
SetTop(f) == [stack EXCEPT ![Len(stack)] = f]

Throw(msg) ==
  /\ error' = msg
  /\ pc' = "catch"
  /\ stack' = <<>>

\* Mutant: a workflow that has an execution record is not run again.
FetchWorkflowOnce ==
  /\ pc = "start"
  /\ \A r \in 1..Len(requests) : requests[r].pc = "done"
  /\ IF ~dbWorkflow.exists THEN Throw(NotFoundMsg)
     ELSE IF ~dbWorkflow.enabled THEN Throw(DisabledMsg)
     ELSE IF dbExecutions # <<>> THEN Throw(<<"Workflow already executed">>)
     ELSE /\ pc' = "fetchGraph"
          /\ UNCHANGED <<error, stack>>
  /\ UNCHANGED <<other, requests, dbWorkflow, dbNodes, dbEdges, dbExecutions, nodes, edges, adjacencyMap,
                 executionData, outcome, attempts, trace>>

\* Lines 16-29: fetch the workflow row; it must exist and be enabled.  The
\* run is asked for when the requests made before it have been answered.
FetchWorkflow ==
  /\ pc = "start"
  /\ \A r \in 1..Len(requests) : requests[r].pc = "done"
  /\ IF ~dbWorkflow.exists THEN Throw(NotFoundMsg)
     ELSE IF ~dbWorkflow.enabled THEN Throw(DisabledMsg)
     ELSE /\ pc' = "fetchGraph"
          /\ UNCHANGED <<error, stack>>
  /\ UNCHANGED <<other, requests, dbWorkflow, dbNodes, dbEdges, dbExecutions, nodes, edges, adjacencyMap,
                 executionData, outcome, attempts, trace>>

\* Mutant: the walk starts at the first node, whatever its type.
TriggerIndexFirst(ns) == IF Len(ns) > 0 THEN 1 ELSE 0

\* Line 47: nodes.find(n => n.node_type === 'trigger'), as an index.
TriggerIndex(ns) ==
  FirstOf({ i \in 1..Len(ns) : ns[i].node_type = "trigger" })

\* Mutant: the trigger is looked for before the node list is checked.
GraphErrorTriggerFirst(ns, es) ==
  IF TriggerIndex(ns) = 0 THEN NoTriggerMsg
  ELSE IF Len(ns) = 0 THEN NoNodesMsg
  ELSE IF BuildFails(ns, es) THEN PushMsg
  ELSE NoError

\* Lines 42-53: what the synchronous part between the loads and the walk
\* throws (NoError: nothing).
GraphError(ns, es) ==
  IF Len(ns) = 0 THEN NoNodesMsg
  ELSE IF TriggerIndex(ns) = 0 THEN NoTriggerMsg
  ELSE IF BuildFails(ns, es) THEN PushMsg
  ELSE NoError

\* Lines 31-57: fetch nodes and edges, check for nodes and for a trigger,
\* build the adjacency map and call executeNode for the trigger node.
FetchGraph ==
  /\ pc = "fetchGraph"
  /\ nodes' = dbNodes
  /\ edges' = dbEdges
  /\ IF GraphError(dbNodes, dbEdges) # NoError
     THEN /\ Throw(GraphError(dbNodes, dbEdges))
          /\ UNCHANGED adjacencyMap
     ELSE /\ adjacencyMap' = buildAdjacencyMap(dbNodes, dbEdges)
          /\ stack' = <<Frame(dbNodes[TriggerIndex(dbNodes)], 0)>>
          /\ pc' = "walk"
          /\ UNCHANGED error
  /\ UNCHANGED <<other, requests, dbWorkflow, dbNodes, dbEdges, dbExecutions, executionData,
                 outcome, attempts, trace>>

\* Mutant: an entry is written at the first visit only.
StoreResultOnce(ctx, id, env) ==
  IF id \in DOMAIN ctx THEN ctx ELSE (id :> env) @@ ctx

\* Mutant: the context is replaced by the entry written.
StoreResultAlone(ctx, id, env) == (id :> env)

\* Line 126: executionData[node.id] = result.
StoreResult(ctx, id, env) == (id :> env) @@ ctx

\* executeNode, lines 102-126: announce the node, run its handler and store
\* the envelope; an error thrown by the handler unwinds every frame.
Dispatch ==
  /\ pc = "walk"
  /\ Top.i = 0
  /\ trace' = Append(trace, [node |-> Top.node.id, via |-> Top.via])
  /\ LET r == HandlerResult(Top.node, executionData, Len(trace) + 1)
     IN IF r.ok
        THEN /\ executionData' = StoreResult(executionData, Top.node.id, r.env)
             /\ stack' = SetTop([Top EXCEPT !.i = 1])
             /\ UNCHANGED <<pc, error>>
        ELSE /\ Throw(r.err)
             /\ UNCHANGED executionData
  /\ UNCHANGED <<other, requests, dbWorkflow, dbNodes, dbEdges, dbExecutions, nodes, edges, adjacencyMap, outcome,
                 attempts>>

\* Line 133: nodes.find(n => n.id === nextNodeId), as an index (0: none).
Resolve(ns, id) == FirstOf({ i \in 1..Len(ns) : ns[i].id = id })

\* The successor the loop of lines 132-137 is at, and its node.
NextNodeId == adjacencyMap[Top.node.id][Top.i]
NextNode == Resolve(nodes, NextNodeId)
InLoop ==
  /\ pc = "walk"
  /\ Top.i >= 1
  /\ Top.i <= Len(adjacencyMap[Top.node.id])

\* Mutant: the loop returns after the first successor that resolves.
DescendFirstOnly ==
  /\ InLoop
  /\ NextNode # 0
  /\ Len(stack) < MaxDepth
  /\ stack' = Append(SetTop([Top EXCEPT
                               !.i = Len(adjacencyMap[Top.node.id]) + 1]),
                     Frame(nodes[NextNode], Top.node.id))
  /\ UNCHANGED <<other, requests, dbWorkflow, dbNodes, dbEdges, dbExecutions, pc, nodes, edges, adjacencyMap,
                 executionData, error, outcome, attempts, trace>>

\* Mutant: a successor that already has an entry is not entered again.
DescendUnlessVisited ==
  /\ InLoop
  /\ NextNode # 0
  /\ Len(stack) < MaxDepth
  /\ stack' = IF NextNodeId \in DOMAIN executionData
               THEN SetTop([Top EXCEPT !.i = @ + 1])
               ELSE Append(SetTop([Top EXCEPT !.i = @ + 1]),
                           Frame(nodes[NextNode], Top.node.id))
  /\ UNCHANGED <<other, requests, dbWorkflow, dbNodes, dbEdges, dbExecutions, pc, nodes, edges, adjacencyMap,
                 executionData, error, outcome, attempts, trace>>

\* Lines 133-135: the successor resolves; recurse into it.
Descend ==
  /\ InLoop
  /\ NextNode # 0
  /\ Len(stack) < MaxDepth
  /\ stack' = Append(SetTop([Top EXCEPT !.i = @ + 1]),
                     Frame(nodes[NextNode], Top.node.id))
  /\ UNCHANGED <<other, requests, dbWorkflow, dbNodes, dbEdges, dbExecutions, pc, nodes, edges, adjacencyMap,
                 executionData, error, outcome, attempts, trace>>

\* Mutant: the loop does not move on from a successor that resolves to no
\* node.
SkipMissingStuck ==
  /\ InLoop
  /\ NextNode = 0
  /\ stack' = stack
  /\ UNCHANGED <<other, requests, dbWorkflow, dbNodes, dbEdges, dbExecutions, pc, nodes, edges, adjacencyMap,
                 executionData, error, outcome, attempts, trace>>

\* Mutant: a successor that resolves to no node is an error.
SkipMissingThrows ==
  /\ InLoop
  /\ NextNode = 0
  /\ Throw(<<"Node not found: ", NextNodeId>>)
  /\ UNCHANGED <<other, requests, dbWorkflow, dbNodes, dbEdges, dbExecutions, nodes, edges,
                 adjacencyMap, executionData, outcome, attempts, trace>>

\* Lines 133-134: the successor resolves to no node; go on with the next.
SkipMissing ==
  /\ InLoop
  /\ NextNode = 0
  /\ stack' = SetTop([Top EXCEPT !.i = @ + 1])
  /\ UNCHANGED <<other, requests, dbWorkflow, dbNodes, dbEdges, dbExecutions, pc, nodes, edges, adjacencyMap,
                 executionData, error, outcome, attempts, trace>>

\* Lines 137-144: the loop is over; return to the caller, and from the
\* trigger's frame to executeWorkflow.
Return ==
  /\ pc = "walk"
  /\ Top.i > Len(adjacencyMap[Top.node.id])
  /\ stack' = SubSeq(stack, 1, Len(stack) - 1)
  /\ pc' = IF Len(stack) = 1 THEN "logCompleted" ELSE "walk"
  /\ UNCHANGED <<other, requests, dbWorkflow, dbNodes, dbEdges, dbExecutions, nodes, edges, adjacencyMap,
                 executionData, error, outcome, attempts, trace>>

\* The recursion has no bound of its own: when the resources of the
\* process are used up the engine either raises a RangeError, which
\* executeNode rethrows up to executeWorkflow, or the process dies.
Exhaust ==
  /\ InLoop
  /\ NextNode # 0
  /\ Len(stack) = MaxDepth
  /\ \/ Throw(StackMsg)
     \/ /\ pc' = "crashed"
        /\ stack' = <<>>
        /\ UNCHANGED error
  /\ UNCHANGED <<other, requests, dbWorkflow, dbNodes, dbEdges, dbExecutions, nodes, edges, adjacencyMap,
                 executionData, outcome, attempts, trace>>

\* ------------------------------------------------------------ logExecution
Record(status, msg, data) ==
  [status |-> status, error_message |-> msg, execution_data |-> data]

\* What the insert of a record may answer: stored, a storage error in the
\* answer, or an exception.  A payload JSON cannot serialise is not stored.
InsertResults(data) ==
  IF data # Null /\ Circular(data.value)
  THEN {"error", "throw"}
  ELSE {"ok", "error"}

\* Mutant: an insert answered with an error is tried again.
InsertRetry(rec, r) ==
  /\ attempts' = attempts \o
       (IF r = "error"
        THEN <<[status |-> rec.status, answer |-> r],
               [status |-> rec.status, answer |-> r]>>
        ELSE <<[status |-> rec.status, answer |-> r]>>)
  /\ dbExecutions' = IF r = "ok" THEN Append(dbExecutions, rec)
                     ELSE dbExecutions

\* logExecution, lines 296-314: one insert; an error in the answer is only
\* written to the console.
Insert(rec, r) ==
  /\ attempts' = Append(attempts, [status |-> rec.status, answer |-> r])
  /\ dbExecutions' = IF r = "ok" THEN Append(dbExecutions, rec)
                     ELSE dbExecutions

\* Lines 59-67: log the completed run and return the success outcome; an
\* exception of the insert is caught by the catch block of line 69.
LogCompleted ==
  /\ pc = "logCompleted"
  /\ \E r \in InsertResults(Some(executionData)) :
       /\ Insert(Record("completed", NoError, Some(executionData)), r)
       /\ IF r = "throw"
          THEN /\ Throw(CircularMsg)
               /\ UNCHANGED outcome
          ELSE /\ outcome' = [returned |-> TRUE, success |-> TRUE,
                              error |-> NoError,
                              executionData |-> Some(executionData)]
               /\ pc' = "done"
               /\ UNCHANGED <<error, stack>>
  /\ UNCHANGED <<other, requests, dbWorkflow, dbNodes, dbEdges, nodes, edges, adjacencyMap, executionData, trace>>

\* Lines 69-78: log the failed run and return the failure outcome.
LogFailed ==
  /\ pc = "catch"
  /\ \E r \in InsertResults(Null) :
       Insert(Record("failed", error, Null), r)
  /\ outcome' = [returned |-> TRUE, success |-> FALSE, error |-> error,
                 executionData |-> Null]
  /\ pc' = "done"
  /\ UNCHANGED <<other, requests, dbWorkflow, dbNodes, dbEdges, nodes, edges, adjacencyMap, executionData, stack,
                 error, trace>>

Next ==
  \/ FetchWorkflow
  \/ FetchGraph
  \/ Dispatch
  \/ Descend
  \/ SkipMissing
  \/ Return
  \/ Exhaust
  \/ LogCompleted
  \/ LogFailed

Spec == Init /\ [][Next]_vars

\* The stored states the runs of FairSpec start from: as for Init, with the
\* exhaustively enumerated graphs built from a node whose handler returns
\* and a node whose handler throws.
FairKinds ==
  { k \in SmallKinds : k.node_type \in {"trigger", "webhook"} }
FairNodeLists(n) == { MkNodes(ks) : ks \in [1..n -> FairKinds] }
InitFair ==
  /\ \/ \E n \in 1..MaxNodes, m \in 0..MaxEdges :
          \E ns \in FairNodeLists(n), es \in EdgeLists(n, m) :
            Stored(Runnable, ns, es)
     \/ \E ns \in TriggerFirst, es \in ShapedEdges :
          Stored(Runnable, ns, es)
     \/ \E w \in [exists : BOOLEAN, enabled : BOOLEAN] :
          \E ns \in NodeLists(0) \cup NodeLists(1) :
            Stored(w, ns, <<>>)
  /\ dbExecutions = <<>>
  /\ RunStarts
  /\ other = NoRun
  /\ requests = <<>>

\* A run that can take a step takes one: the event loop resumes every
\* continuation that is ready, and every call to the store is answered.
FairSpec == InitFair /\ [][Next]_vars /\ WF_vars(Next)

\* ------------------------------------------------------------- two runs
\* executeWorkflow keeps everything it works on in locals (lines 17-54) and
\* the module has no state of its own besides the store client (lines
\* 1-5).  Two calls in one process take turns on the one thread: the call
\* that runs is the variables, the call that waits is `other`, with the
\* rows of the workflow it was asked to run.
Suspended ==
  [pc |-> pc, dbWorkflow |-> dbWorkflow, dbNodes |-> dbNodes,
   dbEdges |-> dbEdges, nodes |-> nodes, edges |-> edges,
   adjacencyMap |-> adjacencyMap, executionData |-> executionData,
   stack |-> stack, error |-> error, outcome |-> outcome,
   attempts |-> attempts, trace |-> trace]

\* The call that runs is at an await that leaves the thread: a call to the
\* store (lines 17, 32, 37, 297) or the fetch of a data node (line 113), or
\* it has returned.
AtSuspension ==
  \/ pc \in {"start", "fetchGraph", "logCompleted", "catch", "done"}
  \/ /\ pc = "walk"
     /\ Top.node.node_type = "data"
     /\ Top.i = 1

\* Mutant: the context is a variable of the module, shared by the calls.
YieldSharingContext ==
  /\ other.pc \notin {"none", "done"}
  /\ AtSuspension
  /\ other' = Suspended
  /\ pc' = other.pc
  /\ dbWorkflow' = other.dbWorkflow
  /\ dbNodes' = other.dbNodes
  /\ dbEdges' = other.dbEdges
  /\ nodes' = other.nodes
  /\ edges' = other.edges
  /\ adjacencyMap' = other.adjacencyMap
  /\ stack' = other.stack
  /\ error' = other.error
  /\ outcome' = other.outcome
  /\ attempts' = other.attempts
  /\ trace' = other.trace
  /\ UNCHANGED <<executionData, dbExecutions, requests>>

\* The thread goes from the call that runs to the call that waits.
Yield ==
  /\ other.pc \notin {"none", "done"}
  /\ AtSuspension
  /\ other' = Suspended
  /\ pc' = other.pc
  /\ dbWorkflow' = other.dbWorkflow
  /\ dbNodes' = other.dbNodes
  /\ dbEdges' = other.dbEdges
  /\ nodes' = other.nodes
  /\ edges' = other.edges
  /\ adjacencyMap' = other.adjacencyMap
  /\ executionData' = other.executionData
  /\ stack' = other.stack
  /\ error' = other.error
  /\ outcome' = other.outcome
  /\ attempts' = other.attempts
  /\ trace' = other.trace
  /\ UNCHANGED <<dbExecutions, requests>>

\* The workflows two runs are asked for: node 1 is the trigger, the other
\* three nodes are of the kinds below, and the edges are a chain, a
\* diamond, a cycle or a pair with a target that is no node.
ConcKinds == { k \in NodeKinds : k.node_type # "trigger" }
ConcNodes ==
  { MkNodes(<<[node_type |-> "trigger", config |-> "none"]>> \o ks) :
      ks \in [1..3 -> ConcKinds] }
CycleEdges == <<Edge(1, 2), Edge(2, 1)>>
DanglingEdges == <<Edge(1, 5), Edge(1, 2)>>
ConcEdges == ShapedEdges \cup {CycleEdges, DanglingEdges}

\* Another workflow, with identifiers of its own.
OtherNodes ==
  <<[id |-> 11, node_type |-> "trigger", config |-> "none"],
    [id |-> 12, node_type |-> "data", config |-> "weather"],
    [id |-> 13, node_type |-> "action", config |-> "email"]>>
OtherEdges == <<Edge(11, 12), Edge(12, 13)>>

\* A call that has just been made, for the workflow with the given rows.
Called(w, ns, es) ==
  [pc |-> "start", dbWorkflow |-> w, dbNodes |-> ns, dbEdges |-> es,
   nodes |-> <<>>, edges |-> <<>>, adjacencyMap |-> <<>>,
   executionData |-> <<>>, stack |-> <<>>, error |-> NoError,
   outcome |-> NoOutcome, attempts |-> <<>>, trace |-> <<>>]

\* Two calls have been made, for the same workflow or for two workflows.
InitConc ==
  /\ \E ns \in ConcNodes, es \in ConcEdges :
       /\ Stored(Runnable, ns, es)
       /\ other \in {Called(Runnable, ns, es),
                     Called(Runnable, OtherNodes, OtherEdges)}
  /\ dbExecutions = <<>>
  /\ RunStarts
  /\ requests = <<>>

NextConc ==
  \/ Next
  \/ Yield

SpecConc == InitConc /\ [][NextConc]_vars

TypeOK ==
  /\ pc \in {"start", "fetchGraph", "walk", "logCompleted", "catch", "done",
             "crashed"}
  /\ Len(stack) <= MaxDepth
  /\ outcome.returned = (pc = "done")

\* ------------------------------------------- node and edge controllers
\* A request: createEdge with body {source_node_id: a, target_node_id: b}
\* (0 stands for a field that is missing), deleteNode of node a, updateNode
\* of node a with body {config: b}.  pc is the await the handler is at,
\* sourceNode what line 31 read, status and message what was answered.
Request(op, a, b) ==
  [op |-> op, a |-> a, b |-> b, pc |-> "new", sourceNode |-> FALSE,
   status |-> 0, message |-> ""]

\* The requests that are made: edges between the two stored nodes, a node
\* that is not stored (3) and a missing field (0); deletion of a stored
\* node; a new configuration, null or a source name, for a stored node.
Menu ==
  <<Request("createEdge", 0, 1), Request("createEdge", 1, 1),
    Request("createEdge", 1, 2), Request("createEdge", 2, 1),
    Request("createEdge", 2, 2), Request("createEdge", 1, 3),
    Request("createEdge", 3, 1), Request("createEdge", 3, 3),
    Request("deleteNode", 1, 0), Request("deleteNode", 2, 0),
    Request("updateNode", 1, NullConfig), Request("updateNode", 2, NullConfig),
    Request("updateNode", 1, "weather"), Request("updateNode", 2, "weather")>>

\* The workflow the requests are about: a trigger and a data node, stored
\* by createNode with the configuration of its body (line 39).
ApiNodes ==
  MkNodes(<<[node_type |-> "trigger", config |-> "none"],
            [node_type |-> "data", config |-> "weather"]>>)

\* Up to MaxRequests requests are in flight (in the order of the menu: the
\* order they are listed in does not matter), the workflow exists with its
\* two nodes and no edge, or it does not exist; no run has been asked for.
InitApi ==
  /\ \/ Stored(Runnable, ApiNodes, <<>>)
     \/ Stored([exists |-> FALSE, enabled |-> FALSE], <<>>, <<>>)
  /\ \E k \in 0..MaxRequests :
       \E idx \in [1..k -> 1..Len(Menu)] :
         /\ \A i \in 1..(k - 1) : idx[i] <= idx[i + 1]
         /\ requests = [i \in 1..k |-> Menu[idx[i]]]
  /\ dbExecutions = <<>>
  /\ RunStarts
  /\ other = NoRun

\* A request is served while no run has been asked for.
Serving(r, op, at) ==
  /\ pc = "start"
  /\ requests[r].op = op
  /\ requests[r].pc = at
Goto(r, to) == requests' = [requests EXCEPT ![r].pc = to]
Answer(r, status, message) ==
  requests' = [requests EXCEPT ![r].pc = "done", ![r].status = status,
                               ![r].message = message]

\* Mutant: an edge from a node to itself passes the checks of the body.
CreateEdgeValidateNoSelfCheck ==
  /\ \E r \in 1..Len(requests) :
       /\ Serving(r, "createEdge", "new")
       /\ IF requests[r].a = 0 \/ requests[r].b = 0
          THEN Answer(r, 400, "Missing required fields")
          ELSE Goto(r, "workflow")
  /\ UNCHANGED <<dbWorkflow, dbNodes, dbEdges, dbExecutions, pc, nodes, edges,
                 adjacencyMap, executionData, stack, error, outcome, attempts,
                 trace, other>>

\* createEdge, lines 7-25: the checks of the body, up to the fetch of the
\* workflow.
CreateEdgeValidate ==
  /\ \E r \in 1..Len(requests) :
       /\ Serving(r, "createEdge", "new")
       /\ IF requests[r].a = 0 \/ requests[r].b = 0
          THEN Answer(r, 400, "Missing required fields")
          ELSE IF requests[r].a = requests[r].b
          THEN Answer(r, 400, "Cannot connect a node to itself")
          ELSE Goto(r, "workflow")
  /\ UNCHANGED <<dbWorkflow, dbNodes, dbEdges, dbExecutions, pc, nodes, edges,
                 adjacencyMap, executionData, stack, error, outcome, attempts,
                 trace, other>>

\* Lines 21-36: the workflow row is read; the source node is asked for.
CreateEdgeWorkflow ==
  /\ \E r \in 1..Len(requests) :
       /\ Serving(r, "createEdge", "workflow")
       /\ IF ~dbWorkflow.exists
          THEN Answer(r, 404, "Workflow not found")
          ELSE Goto(r, "source")
  /\ UNCHANGED <<dbWorkflow, dbNodes, dbEdges, dbExecutions, pc, nodes, edges,
                 adjacencyMap, executionData, stack, error, outcome, attempts,
                 trace, other>>

\* Lines 31-43: the source node is read; the target node is asked for.
CreateEdgeSource ==
  /\ \E r \in 1..Len(requests) :
       /\ Serving(r, "createEdge", "source")
       /\ requests' = [requests EXCEPT
                         ![r].pc = "target",
                         ![r].sourceNode = requests[r].a \in Ids(dbNodes)]
  /\ UNCHANGED <<dbWorkflow, dbNodes, dbEdges, dbExecutions, pc, nodes, edges,
                 adjacencyMap, executionData, stack, error, outcome, attempts,
                 trace, other>>

\* Lines 38-56: the target node is read; both nodes must have been found;
\* an edge between them is asked for.
CreateEdgeTarget ==
  /\ \E r \in 1..Len(requests) :
       /\ Serving(r, "createEdge", "target")
       /\ IF ~requests[r].sourceNode \/ requests[r].b \notin Ids(dbNodes)
          THEN Answer(r, 404, "One or both nodes not found in this workflow")
          ELSE Goto(r, "existing")
  /\ UNCHANGED <<dbWorkflow, dbNodes, dbEdges, dbExecutions, pc, nodes, edges,
                 adjacencyMap, executionData, stack, error, outcome, attempts,
                 trace, other>>

\* Lines 51-72: the edges between the two nodes are read; there must be
\* none; the insert is sent.
CreateEdgeExisting ==
  /\ \E r \in 1..Len(requests) :
       /\ Serving(r, "createEdge", "existing")
       /\ IF \E i \in 1..Len(dbEdges) :
               dbEdges[i] = Edge(requests[r].a, requests[r].b)
          THEN Answer(r, 400, "Connection already exists between these nodes")
          ELSE Goto(r, "insert")
  /\ UNCHANGED <<dbWorkflow, dbNodes, dbEdges, dbExecutions, pc, nodes, edges,
                 adjacencyMap, executionData, stack, error, outcome, attempts,
                 trace, other>>

\* Lines 64-81: the store takes the edge, or answers with an error.
CreateEdgeInsert ==
  /\ \E r \in 1..Len(requests) :
       /\ Serving(r, "createEdge", "insert")
       /\ \/ /\ dbEdges' = Append(dbEdges,
                                   Edge(requests[r].a, requests[r].b))
             /\ Answer(r, 201, "Connection created successfully")
          \/ /\ UNCHANGED dbEdges
             /\ Answer(r, 500, "store error")
  /\ UNCHANGED <<dbWorkflow, dbNodes, dbExecutions, pc, nodes, edges,
                 adjacencyMap, executionData, stack, error, outcome, attempts,
                 trace, other>>

\* deleteNode, lines 150-160: the edges at the node are deleted, or the
\* store answers with an error, which nothing looks at; the deletion of the
\* node is sent.
DeleteNodeEdges ==
  /\ \E r \in 1..Len(requests) :
       /\ Serving(r, "deleteNode", "new")
       /\ \/ dbEdges' = SelectSeq(dbEdges, LAMBDA e :
                           /\ e.source_node_id # requests[r].a
                           /\ e.target_node_id # requests[r].a)
          \/ UNCHANGED dbEdges
       /\ Goto(r, "node")
  /\ UNCHANGED <<dbWorkflow, dbNodes, dbExecutions, pc, nodes, edges,
                 adjacencyMap, executionData, stack, error, outcome, attempts,
                 trace, other>>

\* Lines 157-166: the store deletes the node, or answers with an error.
DeleteNodeRow ==
  /\ \E r \in 1..Len(requests) :
       /\ Serving(r, "deleteNode", "node")
       /\ \/ /\ dbNodes' = SelectSeq(dbNodes,
                                      LAMBDA n : n.id # requests[r].a)
             /\ Answer(r, 200, "Node deleted successfully")
          \/ /\ UNCHANGED dbNodes
             /\ Answer(r, 500, "store error")
  /\ UNCHANGED <<dbWorkflow, dbEdges, dbExecutions, pc, nodes, edges,
                 adjacencyMap, executionData, stack, error, outcome, attempts,
                 trace, other>>

\* updateNode, lines 110-141: the configuration of the body, whatever it
\* is, replaces the stored one; or the store answers with an error; no
\* row has the identifier.
UpdateNode ==
  /\ \E r \in 1..Len(requests) :
       /\ Serving(r, "updateNode", "new")
       /\ \/ /\ dbNodes' = [i \in 1..Len(dbNodes) |->
                              IF dbNodes[i].id = requests[r].a
                              THEN [dbNodes[i] EXCEPT !.config = requests[r].b]
                              ELSE dbNodes[i]]
             /\ IF requests[r].a \in Ids(dbNodes)
                THEN Answer(r, 200, "Node updated successfully")
                ELSE Answer(r, 404, "Node not found")
          \/ /\ UNCHANGED dbNodes
             /\ Answer(r, 500, "store error")
  /\ UNCHANGED <<dbWorkflow, dbEdges, dbExecutions, pc, nodes, edges,
                 adjacencyMap, executionData, stack, error, outcome, attempts,
                 trace, other>>

NextApi ==
  \/ CreateEdgeValidate
  \/ CreateEdgeWorkflow
  \/ CreateEdgeSource
  \/ CreateEdgeTarget
  \/ CreateEdgeExisting
  \/ CreateEdgeInsert
  \/ DeleteNodeEdges
  \/ DeleteNodeRow
  \/ UpdateNode
  \/ Next

\* The requests are served in any order of their steps; then the workflow
\* is run.
SpecApi == InitApi /\ [][NextApi]_vars

\* ------------------------------------------------------------------ claims
\* The traversal returned to executeWorkflow without an exception: line 60
\* was reached, so the first call of logExecution is the 'completed' one.
TraversalCompleted == attempts # <<>> /\ attempts[1].status = "completed"

NodeType(id) == nodes[Resolve(nodes, id)].node_type

\* C1: the returned outcome and the persisted record agree and there is no
\* partial success: a traversal that finished without an exception gives
\* success=true and a 'completed' record with a null message and the full
\* context; any thrown error gives success=false with its message and a
\* 'failed' record with that message and a null context payload.
C1_OutcomeAndRecordAgree ==
  pc = "done" =>
    IF TraversalCompleted
    THEN /\ outcome.success
         /\ outcome.executionData = Some(executionData)
         /\ \A i \in 1..Len(dbExecutions) :
              dbExecutions[i] = Record("completed", NoError, Some(executionData))
    ELSE /\ ~outcome.success
         /\ outcome.error = error
         /\ \A i \in 1..Len(dbExecutions) :
              dbExecutions[i] = Record("failed", error, Null)

NoTriggerWorkflow ==
  /\ dbWorkflow.exists
  /\ dbWorkflow.enabled
  /\ Len(dbNodes) >= 1
  /\ \A i \in 1..Len(dbNodes) : dbNodes[i].node_type # "trigger"

\* C2: an enabled, existing workflow with at least one node and no trigger
\* node is never walked; its run returns failure with the 'no trigger'
\* message and the record written for it carries no context payload.
C2_NoTriggerFails ==
  NoTriggerWorkflow =>
    /\ pc \in {"start", "fetchGraph", "catch", "done"}
    /\ pc = "done" =>
         /\ ~outcome.success
         /\ outcome.error = NoTriggerMsg
         /\ \A i \in 1..Len(dbExecutions) :
              dbExecutions[i].execution_data = Null

C2_Witness ==
  /\ pc = "done"
  /\ NoTriggerWorkflow
  /\ Len(dbNodes) = 2
  /\ Len(dbEdges) >= 1
  /\ Len(dbExecutions) = 1

\* The first precondition, in the order exists, enabled, has a node, has a
\* trigger, that the stored workflow violates (NoError: none).
FirstViolated ==
  IF ~dbWorkflow.exists THEN NotFoundMsg
  ELSE IF ~dbWorkflow.enabled THEN DisabledMsg
  ELSE IF Len(dbNodes) = 0 THEN NoNodesMsg
  ELSE IF \A i \in 1..Len(dbNodes) : dbNodes[i].node_type # "trigger"
       THEN NoTriggerMsg
  ELSE NoError

\* C3: the preconditions are checked in the order exists, enabled, has a
\* node, has a trigger; the reported error is that of the first violated
\* one, and when one is violated no node handler is invoked.
C3_PreconditionOrder ==
  FirstViolated # NoError =>
    /\ trace = <<>>
    /\ executionData = <<>>
    /\ pc \in {"start", "fetchGraph", "catch", "done"}
    /\ pc = "done" => ~outcome.success /\ outcome.error = FirstViolated

C3_Witness ==
  /\ pc = "done"
  /\ ~dbWorkflow.exists
  /\ ~dbWorkflow.enabled
  /\ Len(dbNodes) = 0
  /\ outcome.error = NotFoundMsg

\* C4: a node of an unknown category fails the run with a message holding
\* that category; the node gets no entry, and nothing is executed after it.
C4_UnknownTypeHalts ==
  \A i \in 1..Len(trace) :
    NodeType(trace[i].node) \notin KnownTypes =>
      /\ i = Len(trace)
      /\ trace[i].node \notin DOMAIN executionData
      /\ pc \in {"catch", "done"}
      /\ error = UnknownTypeMsg(NodeType(trace[i].node))
      /\ pc = "done" =>
           /\ ~outcome.success
           /\ outcome.error[2] = NodeType(trace[i].node)

\* The diamond whose node A is of an unknown type: B, a sibling of A not
\* yet visited, and C are never executed.
C4_Witness ==
  /\ pc = "done"
  /\ dbEdges = DiamondEdges
  /\ dbNodes[2].node_type = "loop"
  /\ dbNodes[3].node_type = "data"
  /\ trace = <<[node |-> 1, via |-> 0], [node |-> 2, via |-> 1]>>
  /\ DOMAIN executionData = {1}

\* Visits of a node so far, and the last of them (an index of trace).
Visits(id) == Cardinality({ i \in 1..Len(trace) : trace[i].node = id })
LastVisit(id) ==
  CHOOSE i \in 1..Len(trace) :
    /\ trace[i].node = id
    /\ \A j \in (i+1)..Len(trace) : trace[j].node # id

\* Paths from node u to node v along the stored edges whose target is a
\* stored node; a path is a sequence of edges.
RECURSIVE PathsTo(_, _), PathSum(_, _, _)
PathsTo(u, v) == (IF u = v THEN 1 ELSE 0) + PathSum(u, v, 1)
PathSum(u, v, i) ==
  IF i > Len(dbEdges) THEN 0
  ELSE (IF /\ dbEdges[i].source_node_id = u
           /\ dbEdges[i].target_node_id \in Ids(dbNodes)
        THEN PathsTo(dbEdges[i].target_node_id, v)
        ELSE 0)
       + PathSum(u, v, i + 1)

\* Nodes whose handlers return, with envelopes that do not refer to the
\* context.
Plain(ns) ==
  \A i \in 1..Len(ns) :
    /\ ns[i].node_type \in KnownTypes
    /\ ns[i].config # NullConfig
    /\ ns[i].node_type = "transform" => ns[i].config = "summarize"

C6_WrittenOnce ==
  [][\A k \in DOMAIN executionData :
       k \in DOMAIN executionData' /\ executionData'[k] = executionData[k]]_vars

\* C6, amended: no entry of the context is removed; an entry changes only
\* by a further visit of its own node, which overwrites it with the
\* envelope of that visit.
C6_KeysNeverShrink ==
  [][/\ DOMAIN executionData \subseteq DOMAIN executionData'
     /\ \A k \in DOMAIN executionData :
          executionData'[k] # executionData[k] =>
            /\ Len(trace') = Len(trace) + 1
            /\ trace'[Len(trace')].node = k
            /\ executionData'[k].at = Len(trace')]_vars

C6_Witness ==
  \E k \in DOMAIN executionData :
    /\ Visits(k) = 2
    /\ executionData[k].at = LastVisit(k)
    /\ Cardinality(DOMAIN executionData) >= 3

\* C7 as stated: every run makes exactly one attempt to append a record and
\* yields exactly one record.
C7_ExactlyOneRecord ==
  pc = "done" => Len(attempts) = 1 /\ Len(dbExecutions) = 1

\* C7, amended: a run that returns has made one attempt to append a record,
\* or two (a 'completed' one, then a 'failed' one) exactly when the insert
\* of the 'completed' record threw; it yields at most one record: one when
\* its last attempt was stored, none when that attempt was answered with an
\* error.
C7_AttemptsAndRecords ==
  /\ Len(dbExecutions) <= 1
  /\ pc = "done" =>
       /\ Len(attempts) \in {1, 2}
       /\ Len(attempts) = 2 <=> attempts[1].answer = "throw"
       /\ Len(attempts) = 2 =>
            attempts[1].status = "completed" /\ attempts[2].status = "failed"
       /\ Len(dbExecutions) =
            IF attempts[Len(attempts)].answer = "ok" THEN 1 ELSE 0

C7_Witness ==
  /\ pc = "done"
  /\ Len(attempts) = 2
  /\ Len(dbExecutions) = 1
  /\ dbExecutions[1].status = "failed"

\* C8: what the run returns is decided by the traversal alone, whatever
\* the store answers to the append of the record: a traversal that
\* completed is reported with success=true and its context, a thrown error
\* with success=false and its message.
C8_PersistFailureKeepsOutcome ==
  pc = "done" =>
    /\ TraversalCompleted =>
         outcome.success /\ outcome.executionData = Some(executionData)
    /\ ~TraversalCompleted =>
         ~outcome.success /\ outcome.error = error

\* executeNode as one recursive call: the walk from node n entered from
\* `via`, continuing the walk state w = [ctx, trace, err]; an error ends it.
RECURSIVE WalkNode(_, _, _, _, _, _), WalkLoop(_, _, _, _, _, _)
WalkNode(ns, adj, n, via, w, depth) ==
  LET tr == Append(w.trace, [node |-> n.id, via |-> via])
      r == HandlerResult(n, w.ctx, Len(tr))
  IN IF r.ok
     THEN WalkLoop(ns, adj, n, 1,
                   [ctx |-> StoreResult(w.ctx, n.id, r.env), trace |-> tr,
                    err |-> NoError], depth)
     ELSE [ctx |-> w.ctx, trace |-> tr, err |-> r.err]
WalkLoop(ns, adj, n, i, w, depth) ==
  IF w.err # NoError \/ i > Len(adj[n.id]) THEN w
  ELSE IF Resolve(ns, adj[n.id][i]) = 0
       THEN WalkLoop(ns, adj, n, i + 1, w, depth)
  ELSE IF depth = MaxDepth THEN [w EXCEPT !.err = StackMsg]
  ELSE WalkLoop(ns, adj, n, i + 1,
                WalkNode(ns, adj, ns[Resolve(ns, adj[n.id][i])], n.id, w,
                         depth + 1),
                depth)

\* The stored edges without those whose target is no stored node, and the
\* walk of the stored graph with these edges only.
ResolvableEdges ==
  SelectSeq(dbEdges, LAMBDA e : e.target_node_id \in Ids(dbNodes))
WalkWithoutDanglingTargets ==
  WalkNode(dbNodes, buildAdjacencyMap(dbNodes, ResolvableEdges),
           dbNodes[TriggerIndex(dbNodes)], 0,
           [ctx |-> <<>>, trace |-> <<>>, err |-> NoError], 1)

\* C9: an edge whose target is no node of the workflow is passed over: the
\* run executes the same nodes in the same order, builds the same context
\* and ends the traversal the same way (completed, or the same error) as
\* the run of the workflow without such edges.
C9_DanglingTargetSkipped ==
  (pc = "done" /\ FirstViolated = NoError
     /\ GraphError(dbNodes, dbEdges) = NoError) =>
    /\ trace = WalkWithoutDanglingTargets.trace
    /\ executionData = WalkWithoutDanglingTargets.ctx
    /\ TraversalCompleted <=> WalkWithoutDanglingTargets.err = NoError
    /\ ~TraversalCompleted => error = WalkWithoutDanglingTargets.err

\* The trigger's first successor is no node and its second one is node 2.
C9_Witness ==
  /\ pc = "done"
  /\ Len(dbNodes) = 2
  /\ dbEdges = <<Edge(1, 3), Edge(1, 2)>>
  /\ [i \in 1..Len(trace) |-> trace[i].node] = <<1, 2>>
  /\ outcome.success

\* C10: the adjacency map is built for every loaded node list and edge
\* list: once a trigger is found the builder raises no error, whatever
\* node identifiers the edges refer to.
C10_BuilderNeverFails ==
  (FirstViolated = NoError /\ pc \notin {"start", "fetchGraph"}) =>
    /\ error # PushMsg
    /\ DOMAIN adjacencyMap = Ids(dbNodes)

\* The nodes an edge leads to from node u, dangling targets left out (they
\* are skipped at line 134), and the nodes reached from a set of nodes.
Successors(u) ==
  { dbEdges[i].target_node_id :
      i \in { j \in 1..Len(dbEdges) :
                /\ dbEdges[j].source_node_id = u
                /\ dbEdges[j].target_node_id \in Ids(dbNodes) } }
RECURSIVE ReachedFrom(_)
ReachedFrom(S) ==
  LET T == S \cup UNION { Successors(u) : u \in S }
  IN IF T = S THEN S ELSE ReachedFrom(T)

\* The walk was started: the workflow, its nodes and its edges were loaded,
\* a trigger was found and the adjacency map was built.
WalkStarted ==
  /\ pc \notin {"start", "fetchGraph"}
  /\ FirstViolated = NoError
  /\ GraphError(dbNodes, dbEdges) = NoError

\* The trigger the walk starts from, the nodes it can reach, and whether
\* one of them lies on a cycle.
TriggerId == dbNodes[TriggerIndex(dbNodes)].id
ReachableNodes == ReachedFrom({TriggerId})
CycleReachable ==
  \E n \in ReachableNodes : n \in ReachedFrom(Successors(n))

\* C11: there is no cycle detection. When a cycle can be reached from the
\* trigger the run never completes the traversal, never returns success
\* and never stores a 'completed' record; and when no handler fails the
\* walk goes on entering nodes again until the resources of the process
\* are used up (the depth MaxDepth of the model).
C11_CycleNeverSucceeds ==
  (WalkStarted /\ CycleReachable) =>
    /\ pc # "logCompleted"
    /\ ~TraversalCompleted
    /\ ~outcome.success
    /\ \A i \in 1..Len(dbExecutions) : dbExecutions[i].status # "completed"
    /\ (pc \in {"catch", "done", "crashed"} /\ error \in {NoError, StackMsg})
         => /\ Len(trace) >= MaxDepth
            /\ \E n \in ReachableNodes : Visits(n) >= 2

\* A cycle through the trigger was walked until the stack overflowed; the
\* run returned the failure and stored it.
C11_Witness ==
  /\ pc = "done"
  /\ WalkStarted
  /\ CycleReachable
  /\ error = StackMsg
  /\ Visits(TriggerId) >= 2
  /\ ~outcome.success
  /\ Len(dbExecutions) = 1
  /\ dbExecutions[1].status = "failed"

\* The stored workflow passes the checks of executeWorkflow and a cycle can
\* be reached from its trigger.
CyclicWorkflow ==
  /\ FirstViolated = NoError
  /\ GraphError(dbNodes, dbEdges) = NoError
  /\ CycleReachable

\* The paths from the trigger to the nodes of S, added up.
RECURSIVE PathsToAll(_)
PathsToAll(S) ==
  IF S = {} THEN 0
  ELSE LET n == CHOOSE x \in S : TRUE
       IN PathsTo(TriggerId, n) + PathsToAll(S \ {n})

\* C12: when no cycle can be reached from the trigger every run ends and
\* returns an outcome; the handlers it invokes are at most one per path
\* from the trigger to a reachable node, and exactly that many when the
\* traversal completes.
C12_AcyclicTerminates ==
  /\ ~CyclicWorkflow ~> (pc = "done" /\ outcome.returned)
  /\ [](WalkStarted /\ ~CycleReachable =>
          /\ Len(trace) <= PathsToAll(ReachableNodes)
          /\ TraversalCompleted => Len(trace) = PathsToAll(ReachableNodes))

\* The diamond was walked to its end: five handler invocations for the five
\* paths from the trigger, and the outcome was returned.
C12_Witness ==
  /\ pc = "done"
  /\ outcome.returned
  /\ dbEdges = DiamondEdges
  /\ ~CycleReachable
  /\ TraversalCompleted
  /\ Len(trace) = 5
  /\ PathsToAll(ReachableNodes) = 5

\* The entries of the context of run r were written by executions of r.
OwnEntries(r) ==
  \A k \in DOMAIN r.executionData :
    /\ r.executionData[k].at \in 1..Len(r.trace)
    /\ r.trace[r.executionData[k].at].node = k

\* The walk of the stored graph by one call of executeNode on the trigger,
\* with nothing else going on.
RunAlone ==
  WalkNode(dbNodes, buildAdjacencyMap(dbNodes, dbEdges),
           dbNodes[TriggerIndex(dbNodes)], 0,
           [ctx |-> <<>>, trace |-> <<>>, err |-> NoError], 1)

\* The records run r has stored: one for each insert answered without an
\* error.
RecordsOf(r) ==
  { IF r.attempts[i].status = "completed"
    THEN Record("completed", NoError, Some(r.executionData))
    ELSE Record("failed", r.error, Null) :
      i \in { j \in 1..Len(r.attempts) : r.attempts[j].answer = "ok" } }
Stores(r) ==
  Cardinality({ j \in 1..Len(r.attempts) : r.attempts[j].answer = "ok" })

\* C13: two runs that take turns at their suspension points share no
\* state: each context holds only entries written by its own executions,
\* a run that has returned has the trace, the context, the error and the
\* outcome of the walk of its workflow alone, and the stored records are
\* those of the two runs, one for each insert that was answered.
C13_RunsShareNoState ==
  other.pc # "none" =>
    /\ OwnEntries(Suspended)
    /\ OwnEntries(other)
    /\ Len(dbExecutions) = Stores(Suspended) + Stores(other)
    /\ \A i \in 1..Len(dbExecutions) :
         dbExecutions[i] \in RecordsOf(Suspended) \cup RecordsOf(other)
    /\ (pc = "done" /\ WalkStarted) =>
         /\ trace = RunAlone.trace
         /\ executionData = RunAlone.ctx
         /\ TraversalCompleted <=> RunAlone.err = NoError
         /\ ~TraversalCompleted =>
              /\ error = RunAlone.err
              /\ outcome = [returned |-> TRUE, success |-> FALSE,
                            error |-> RunAlone.err, executionData |-> Null]
         /\ (TraversalCompleted /\ attempts[1].answer # "throw") =>
              outcome = [returned |-> TRUE, success |-> TRUE,
                         error |-> NoError,
                         executionData |-> Some(RunAlone.ctx)]

\* The runs of two workflows took turns; both have returned success and the
\* record of each is stored, that of the run that returned first before
\* that of the other.
C13_Witness ==
  /\ pc = "done"
  /\ other.pc = "done"
  /\ other.dbNodes # dbNodes
  /\ outcome.success
  /\ other.outcome.success
  /\ Len(dbExecutions) = 2
  /\ dbExecutions[1].execution_data.value = other.executionData
  /\ dbExecutions[2].execution_data.value = executionData
  /\ DOMAIN executionData \cap DOMAIN other.executionData = {}

\* The depth-first pre-order of the stored graph from node n entered from
\* `via`: n, then for each edge out of n, in the order the edges are stored,
\* the whole pre-order of its target.
RECURSIVE PreOrder(_, _), PreOrderEdges(_, _)
PreOrder(n, via) == <<[node |-> n, via |-> via]>> \o PreOrderEdges(n, 1)
PreOrderEdges(n, i) ==
  IF i > Len(dbEdges) THEN <<>>
  ELSE (IF /\ dbEdges[i].source_node_id = n
           /\ dbEdges[i].target_node_id \in Ids(dbNodes)
        THEN PreOrder(dbEdges[i].target_node_id, n)
        ELSE <<>>)
       \o PreOrderEdges(n, i + 1)

IsPrefix(s, t) == Len(s) <= Len(t) /\ s = SubSeq(t, 1, Len(s))

\* C14: the traversal is depth-first in pre-order.  A node that is in its
\* successor loop has its entry in the context; the nodes are executed in
\* the pre-order of the stored graph, all of it when the traversal
\* completes and a prefix of it when a handler fails; the chain trigger,
\* data, transform, action is executed in that order and its context has
\* exactly the four keys.
C14_DepthFirstPreOrder ==
  /\ \A k \in 1..Len(stack) :
       /\ k < Len(stack) => stack[k].i >= 1
       /\ stack[k].i >= 1 => stack[k].node.id \in DOMAIN executionData
  /\ (WalkStarted /\ ~CycleReachable) =>
       /\ IsPrefix(trace, PreOrder(TriggerId, 0))
       /\ TraversalCompleted => trace = PreOrder(TriggerId, 0)
  /\ (TraversalCompleted /\ dbEdges = ChainEdges /\ Len(dbNodes) = 4
        /\ [i \in 1..4 |-> dbNodes[i].node_type]
             = <<"trigger", "data", "transform", "action">>) =>
       /\ [i \in 1..Len(trace) |-> trace[i].node] = <<1, 2, 3, 4>>
       /\ DOMAIN executionData = {1, 2, 3, 4}
       /\ \A i \in 1..4 : executionData[i].at = i

\* The chain trigger, data, transform, action was run to its end.
C14_Witness ==
  /\ pc = "done"
  /\ outcome.success
  /\ dbEdges = ChainEdges
  /\ Len(dbNodes) = 4
  /\ [i \in 1..4 |-> dbNodes[i].node_type]
       = <<"trigger", "data", "transform", "action">>
  /\ [i \in 1..Len(trace) |-> trace[i].node] = <<1, 2, 3, 4>>
  /\ DOMAIN outcome.executionData.value = {1, 2, 3, 4}

\* C15: the context a successful run returns has an entry for exactly the
\* nodes that can be reached from the trigger along edges whose target is
\* a stored node; a node that cannot be reached is never executed and
\* never gets an entry; when no edge leaves the trigger the returned
\* context has one entry, the trigger's envelope.
C15_KeysAreReachableNodes ==
  /\ WalkStarted =>
       \A n \in Ids(dbNodes) \ ReachableNodes :
         Visits(n) = 0 /\ n \notin DOMAIN executionData
  /\ outcome.success =>
       /\ DOMAIN outcome.executionData.value = ReachableNodes
       /\ (\A i \in 1..Len(dbEdges) :
             dbEdges[i].source_node_id # TriggerId) =>
            /\ DOMAIN outcome.executionData.value = {TriggerId}
            /\ outcome.executionData.value[TriggerId].type = "trigger"

\* A run whose trigger has no successor returned a context of one entry
\* although the workflow has a second node, which has an edge of its own.
C15_Witness ==
  /\ pc = "done"
  /\ outcome.success
  /\ Len(dbNodes) = 2
  /\ dbEdges = <<Edge(2, 1)>>
  /\ TriggerId = 1
  /\ DOMAIN outcome.executionData.value = {1}
  /\ outcome.executionData.value[1].type = "trigger"

\* What stays of a context when identifiers of executions and timestamps
\* are left out: its keys and the category of the envelope of each.
Shape(data) ==
  IF data = Null THEN Null
  ELSE Some([k \in DOMAIN data.value |-> data.value[k].type])

\* The two calls were made for the same workflow, nodes and edges.
SameWorkflow ==
  /\ other.pc # "none"
  /\ other.dbWorkflow = dbWorkflow
  /\ other.dbNodes = dbNodes
  /\ other.dbEdges = dbEdges

\* C16: two runs of the same stored workflow, nodes and edges store
\* records of the same status and the same context shape, and when both
\* have returned they have executed the same nodes in the same order and
\* built contexts of the same shape.
C16_SameRecordTwice ==
  SameWorkflow =>
    /\ \A i, j \in 1..Len(dbExecutions) :
         /\ dbExecutions[i].status = dbExecutions[j].status
         /\ Shape(dbExecutions[i].execution_data)
              = Shape(dbExecutions[j].execution_data)
    /\ (pc = "done" /\ other.pc = "done") =>
         /\ trace = other.trace
         /\ Shape(Some(executionData)) = Shape(Some(other.executionData))
         /\ TraversalCompleted <=>
              (other.attempts # <<>>
                 /\ other.attempts[1].status = "completed")

\* The diamond was run twice and both runs stored a 'completed' record
\* with the four keys.
C16_Witness ==
  /\ SameWorkflow
  /\ pc = "done"
  /\ other.pc = "done"
  /\ dbEdges = DiamondEdges
  /\ Len(dbExecutions) = 2
  /\ dbExecutions[1].status = "completed"
  /\ dbExecutions[2].status = "completed"
  /\ DOMAIN dbExecutions[1].execution_data.value = {1, 2, 3, 4}
  /\ dbExecutions[1].execution_data.value[4].at = 5
  /\ Shape(dbExecutions[1].execution_data)
       = Shape(dbExecutions[2].execution_data)

\* C17: the trigger handler always succeeds: every execution of a trigger
\* node, whatever configuration the node API has stored for it, returns
\* its envelope, which the walker stores.
C17_TriggerAlwaysSucceeds ==
  \A i \in 1..Len(trace) :
    NodeType(trace[i].node) = "trigger" =>
      trace[i].node \in DOMAIN executionData

\* What the envelope of a transform node holds of the context: the copy
\* made when the handler ran, or the context itself as it is now.
Held(env) ==
  IF env.result.kind = "live" THEN Stringify(executionData)
  ELSE env.result.summary

\* C18: the envelope of a filter, combine or unrecognised transform node
\* holds the context as it was when the handler ran: entries of nodes
\* executed before the transform only, and not the entry of the transform
\* itself.
C18_TransformHoldsSnapshot ==
  \A k \in DOMAIN executionData :
    (executionData[k].type = "transform"
       /\ executionData[k].subtype # "summarize") =>
      /\ k \notin DOMAIN Held(executionData[k])
      /\ \A j \in DOMAIN Held(executionData[k]) :
           Held(executionData[k])[j] < executionData[k].at

\* C19: no stored edge goes from a node to itself; a createEdge request
\* whose source is its target is answered 400 at the checks of its body,
\* and no step of it changes the stored edges.
C19_SelfLoopsRejected ==
  /\ [](/\ \A i \in 1..Len(dbEdges) :
            dbEdges[i].source_node_id # dbEdges[i].target_node_id
        /\ \A r \in 1..Len(requests) :
            (requests[r].op = "createEdge"
               /\ requests[r].a = requests[r].b) =>
              /\ requests[r].pc \in {"new", "done"}
              /\ requests[r].pc = "done" =>
                   /\ requests[r].status = 400
                   /\ requests[r].message = "Cannot connect a node to itself"
              /\ \A i \in 1..Len(dbEdges) :
                   dbEdges[i] # Edge(requests[r].a, requests[r].b))
  /\ [][\A r \in 1..Len(requests) :
          (requests[r].op = "createEdge" /\ requests[r].a = requests[r].b
             /\ requests'[r] # requests[r]) => dbEdges' = dbEdges]_vars

\* A request for an edge from node 1 to itself was answered 400 while a
\* request for an edge from node 1 to node 2 was served, whose edge is the
\* only one stored.
C19_Witness ==
  /\ Len(requests) = 2
  /\ requests[1] = [Request("createEdge", 1, 1) EXCEPT
                      !.pc = "done", !.status = 400,
                      !.message = "Cannot connect a node to itself"]
  /\ requests[2].op = "createEdge"
  /\ requests[2].status = 201
  /\ dbEdges = <<Edge(1, 2)>>

\* C20: every stored edge connects two stored nodes of the workflow,
\* however the steps of createEdge and deleteNode requests interleave.
C20_EdgesConnectStoredNodes ==
  \A i \in 1..Len(dbEdges) :
    /\ dbEdges[i].source_node_id \in Ids(dbNodes)
    /\ dbEdges[i].target_node_id \in Ids(dbNodes)

====
